---- MODULE Spec2Model ----
(***************************************************************************)
(* The walkie daemon (src/daemon.js): the channel registry, the peer       *)
(* registry, the IPC commands join / send / read / leave, the routing of   *)
(* inbound peer records and the suspended reads with their timers.         *)
(*                                                                         *)
(* One action is one run of a handler on the daemon's event loop. A        *)
(* handler that awaits (join on discovery.flushed(), leave on              *)
(* discovery.destroy()) is two actions, one up to the await and one from   *)
(* it. Time is abstract: an armed timer fires at any later step.           *)
(***************************************************************************)
EXTENDS Naturals, Sequences, FiniteSets, TLC

\* ---------------------------------------------------------------- inputs

\* A string is the sequence of its UTF-16 code units. The values JSON.parse gives
\* cmd.channel: a string, or a number (a natural number here).
Str(units) == [t |-> "string", v |-> units]
Num(n) == [t |-> "number", v |-> <<n>>]

\* The channel names of the requests: the number 1 and the string "1", two keys of
\* this.channels.
Names == {Num(1), Str(<<49>>)}
\* The secrets of the requests, strings: "s1", "s2", and "s1" followed by a NUL
\* character.
Secrets == {<<115, 49>>, <<115, 50>>, <<115, 49, 0>>}
\* The public keys of the remote daemons.
PeerKeys == {"p1", "p2"}

\* join requests that reach swarm.join.
MaxJoins == 2
\* leave requests that reach discovery.destroy().
MaxLeaves == 1
\* read requests that suspend.
MaxReads == 2
\* msg records routed to a channel; the k-th one carries payload k.
MaxMsgs == 2
\* Connections the mesh reports.
MaxConns == 2
\* Connections in the behaviours that follow the reads.
MaxReadConns == 1
\* Topics listed in one remote hello.
MaxHelloTopics == 1
\* Daemon processes started in one working directory.
MaxProcs == 2
\* The secrets the remote daemons hold.
RemoteSecrets == {<<115, 49>>}

\* ------------------------------------------------------------- constants

MAX_MESSAGE_SIZE == 256 * 1024

MAX_PEER_BUFFER == 1024 * 1024

SCRYPT_SALT_PREFIX == "walkie-hardened:v1"

\* this.id = agentId(): the daemon's instance id.
DaemonId == <<"d0", 8>>

\* Date.now() of a send: the clock is not modelled.
Now == "now"

\* Payload lengths a client or a peer may use: empty, at the limit, one over.
Lens == {0, MAX_MESSAGE_SIZE, MAX_MESSAGE_SIZE + 1}

\* Sizes of the data events of a connection: half the peer buffer limit, so that
\* two of them reach the limit and a third passes it, and one byte over the limit.
ChunkLens == {MAX_PEER_BUFFER \div 2, MAX_PEER_BUFFER + 1}

\* ------------------------------------------------------- topic derivation

\* `${channel}` of line 10: a string as it is, a number in decimal digits.
RECURSIVE Digits(_)
Digits(n) == IF n < 10 THEN <<48 + n>> ELSE Digits(n \div 10) \o <<48 + (n % 10)>>
TemplateString(x) == IF x.t = "number" THEN Digits(x.v[1]) ELSE x.v

\* The UTF-8 bytes scryptSync makes of a string: a surrogate pair is one code point
\* on 4 bytes, a lone surrogate becomes U+FFFD (ef bf bd).
RECURSIVE Utf8(_)
Utf8(s) ==
  IF s = <<>> THEN <<>>
  ELSE LET u == s[1] IN
    IF u < 128 THEN <<u>> \o Utf8(Tail(s))
    ELSE IF u < 2048 THEN <<192 + (u \div 64), 128 + (u % 64)>> \o Utf8(Tail(s))
    ELSE IF u \in 55296..56319 /\ Len(s) >= 2 /\ s[2] \in 56320..57343
    THEN LET cp == 65536 + ((u - 55296) * 1024) + (s[2] - 56320)
         IN <<240 + (cp \div 262144), 128 + ((cp \div 4096) % 64),
              128 + ((cp \div 64) % 64), 128 + (cp % 64)>> \o Utf8(SubSeq(s, 3, Len(s)))
    ELSE IF u \in 55296..57343 THEN <<239, 191, 189>> \o Utf8(Tail(s))
    ELSE <<224 + (u \div 4096), 128 + ((u \div 64) % 64), 128 + (u % 64)>> \o Utf8(Tail(s))

\* A 32-bit word is <<high 16 bits, low 16 bits>>.
Pow2(k) == <<1, 2, 4, 8, 16, 32, 64, 128, 256, 512, 1024, 2048, 4096, 8192, 16384,
             32768, 65536>>[k + 1]

RECURSIVE BitXor(_, _, _)
BitXor(a, b, n) ==
  IF n = 0 THEN 0 ELSE ((a + b) % 2) + 2 * BitXor(a \div 2, b \div 2, n - 1)

RECURSIVE BitAnd(_, _, _)
BitAnd(a, b, n) ==
  IF n = 0 THEN 0 ELSE ((a % 2) * (b % 2)) + 2 * BitAnd(a \div 2, b \div 2, n - 1)

WXor(x, y) == <<BitXor(x[1], y[1], 16), BitXor(x[2], y[2], 16)>>
WAnd(x, y) == <<BitAnd(x[1], y[1], 16), BitAnd(x[2], y[2], 16)>>
WNot(x) == <<65535 - x[1], 65535 - x[2]>>
WAdd(x, y) ==
  <<(x[1] + y[1] + ((x[2] + y[2]) \div 65536)) % 65536, (x[2] + y[2]) % 65536>>

\* x rotated right by k bits, and x shifted right by k < 16 bits.
Rotr(x, k) ==
  LET y == IF k >= 16 THEN <<x[2], x[1]>> ELSE x
      j == IF k >= 16 THEN k - 16 ELSE k
  IN <<y[1] \div Pow2(j) + (y[2] % Pow2(j)) * Pow2(16 - j),
       y[2] \div Pow2(j) + (y[1] % Pow2(j)) * Pow2(16 - j)>>
Shr(x, k) ==
  <<x[1] \div Pow2(k), x[2] \div Pow2(k) + (x[1] % Pow2(k)) * Pow2(16 - k)>>

ShaCh(e, f, g) == WXor(WAnd(e, f), WAnd(WNot(e), g))
ShaMaj(a, b, c) == WXor(WXor(WAnd(a, b), WAnd(a, c)), WAnd(b, c))
ShaBig0(a) == WXor(WXor(Rotr(a, 2), Rotr(a, 13)), Rotr(a, 22))
ShaBig1(e) == WXor(WXor(Rotr(e, 6), Rotr(e, 11)), Rotr(e, 25))
ShaSmall0(x) == WXor(WXor(Rotr(x, 7), Rotr(x, 18)), Shr(x, 3))
ShaSmall1(x) == WXor(WXor(Rotr(x, 17), Rotr(x, 19)), Shr(x, 10))

\* The round constants and the initial hash value of FIPS 180-4.
ShaK ==
  <<<<17034, 12184>>, <<28983, 17553>>, <<46528, 64463>>, <<59829, 56229>>,
    <<14678, 49755>>, <<23025, 4593>>, <<37439, 33444>>, <<43804, 24277>>,
    <<55303, 43672>>, <<4739, 23297>>, <<9265, 34238>>, <<21772, 32195>>,
    <<29374, 23924>>, <<32990, 45566>>, <<39900, 1703>>, <<49563, 61812>>,
    <<58523, 27073>>, <<61374, 18310>>, <<4033, 40390>>, <<9228, 41420>>,
    <<11753, 11375>>, <<19060, 33962>>, <<23728, 43484>>, <<30457, 35034>>,
    <<38974, 20818>>, <<43057, 50797>>, <<45059, 10184>>, <<48985, 32711>>,
    <<50912, 3059>>, <<54695, 37191>>, <<1738, 25425>>, <<5161, 10599>>,
    <<10167, 2693>>, <<11803, 8504>>, <<19756, 28156>>, <<21304, 3347>>,
    <<25866, 29524>>, <<30314, 2747>>, <<33218, 51502>>, <<37490, 11397>>,
    <<41663, 59553>>, <<43034, 26187>>, <<49739, 35696>>, <<51052, 20899>>,
    <<53650, 59417>>, <<54937, 1572>>, <<62478, 13701>>, <<4202, 41072>>,
    <<6564, 49430>>, <<7735, 27656>>, <<10056, 30540>>, <<13488, 48309>>,
    <<14620, 3251>>, <<20184, 43594>>, <<23452, 51791>>, <<26670, 28659>>,
    <<29839, 33518>>, <<30885, 25455>>, <<33992, 30740>>, <<36039, 520>>,
    <<37054, 65530>>, <<42064, 27883>>, <<48889, 41975>>, <<50801, 30962>>>>

ShaH0 ==
  <<<<27145, 58983>>, <<47975, 44677>>, <<15470, 62322>>, <<42319, 62778>>,
    <<20750, 21119>>, <<39685, 26764>>, <<8067, 55723>>, <<23520, 52505>>>>

RECURSIVE Zeros(_)
Zeros(k) == IF k = 0 THEN <<>> ELSE <<0>> \o Zeros(k - 1)

\* The message padded to whole blocks of 64 bytes: a 1 bit, zeros, the length in
\* bits on 8 bytes.
ShaPad(x) ==
  LET bits == 8 * Len(x)
  IN x \o <<128>> \o Zeros((119 - (Len(x) % 64)) % 64)
       \o <<0, 0, 0, 0, bits \div 16777216, (bits \div 65536) % 256,
            (bits \div 256) % 256, bits % 256>>

\* The 16 words of a block, extended to the 64 of the message schedule.
RECURSIVE ShaWords(_)
ShaWords(b) ==
  IF b = <<>> THEN <<>>
  ELSE <<<<b[1] * 256 + b[2], b[3] * 256 + b[4]>>>> \o ShaWords(SubSeq(b, 5, Len(b)))

RECURSIVE ShaSchedule(_)
ShaSchedule(w) ==
  LET t == Len(w) + 1 IN
  IF t > 64 THEN w
  ELSE ShaSchedule(Append(w, WAdd(WAdd(ShaSmall1(w[t - 2]), w[t - 7]),
                                   WAdd(ShaSmall0(w[t - 15]), w[t - 16]))))

\* The rounds t..64 of the compression on the working variables v = <<a, ..., h>>,
\* which are evaluated before the next round.
RECURSIVE ShaRounds(_, _, _)
ShaRounds(v, w, t) ==
  IF t > 64 \/ Len(v) # 8 THEN v
  ELSE LET t1 == WAdd(WAdd(WAdd(v[8], ShaBig1(v[5])), WAdd(ShaCh(v[5], v[6], v[7]), ShaK[t])),
                      w[t])
           t2 == WAdd(ShaBig0(v[1]), ShaMaj(v[1], v[2], v[3]))
       IN ShaRounds(<<WAdd(t1, t2), v[1], v[2], v[3], WAdd(v[4], t1), v[5], v[6], v[7]>>,
                    w, t + 1)

ShaCompress(h, block) ==
  LET v == ShaRounds(h, ShaSchedule(ShaWords(block)), 1)
  IN <<WAdd(h[1], v[1]), WAdd(h[2], v[2]), WAdd(h[3], v[3]), WAdd(h[4], v[4]),
       WAdd(h[5], v[5]), WAdd(h[6], v[6]), WAdd(h[7], v[7]), WAdd(h[8], v[8])>>

RECURSIVE ShaBlocks(_, _)
ShaBlocks(h, x) ==
  IF x = <<>> THEN h
  ELSE ShaBlocks(ShaCompress(h, SubSeq(x, 1, 64)), SubSeq(x, 65, Len(x)))

RECURSIVE ShaBytes(_)
ShaBytes(h) ==
  IF h = <<>> THEN <<>>
  ELSE <<h[1][1] \div 256, h[1][1] % 256, h[1][2] \div 256, h[1][2] % 256>> \o ShaBytes(Tail(h))

\* SHA-256 of the bytes x: its 32 bytes.
Sha256(x) == ShaBytes(ShaBlocks(ShaH0, ShaPad(x)))

\* The bytes without their trailing NUL bytes.
RECURSIVE StripNul(_)
StripNul(x) ==
  IF x # <<>> /\ x[Len(x)] = 0 THEN StripNul(SubSeq(x, 1, Len(x) - 1)) ELSE x

\* The key of HMAC-SHA256, under which scrypt (PBKDF2) takes the password: a
\* password longer than the 64 bytes of a block is replaced by its digest, and the
\* key is padded with NUL bytes to the block, so that trailing NUL bytes make no
\* difference.
HmacKey(password) ==
  StripNul(IF Len(password) > 64 THEN Sha256(password) ELSE password)

\* scrypt(secret, salt = prefix:channel), 32 bytes: one-way and collision-free in
\* the bytes of the salt and in the HMAC key of the secret, so the digest is
\* modelled by the pair of the two.
deriveTopic(channel, secret) ==
  [salt |-> <<SCRYPT_SALT_PREFIX, Utf8(TemplateString(channel))>>, pw |-> HmacKey(Utf8(secret))]

\* buf.toString('hex') of 32 bytes: a hex string is <<bytes, number of digits>>.
ToHex(bytes) == <<bytes, 64>>

\* x.slice(0, 8) of a hex string: its first 8 digits.
Slice8(x) == <<x[1], IF x[2] < 8 THEN x[2] ELSE 8>>

\* topic.toString('hex') of a channel
TopicHex(channel, secret) == ToHex(deriveTopic(channel, secret))

AllTopics == {TopicHex(n, s) : n \in Names, s \in Secrets}

\* conn.remotePublicKey.toString('hex')
RemoteKeys == {ToHex(k) : k \in PeerKeys}

\* The id a remote daemon puts in its msg records (8 hex digits); p2 sends none.
NoId == <<>>
RemoteId(remoteKey) == IF remoteKey[1] = "p1" THEN <<"r1", 8>> ELSE NoId

\* ------------------------------------------------------------------ state

VARIABLES
  channels,  \* this.channels, in Map order: <<[name, topicHex, discovery, peers, messages, waiters]>>
  peers,     \* this.peers: remoteKey -> [conn, knownTopics]; peer.channels, which no
             \* handler reads back, is not kept, and peer.buf is pbuf
  conns,     \* the mesh connections reported so far: <<[key, st, writable]>>
  swarm,     \* the live discovery sessions of swarm.join: {[id, topic]}
  joins,     \* _joinChannel calls awaiting discovery.flushed()
  leaves,    \* _leaveChannel calls awaiting discovery.destroy()
  timers,    \* the armed read timers (setTimeout not yet fired or cleared)
  reads,     \* the reads that suspended: id -> [channel, ch, replies, left]
  njoin,     \* join requests that reached swarm.join: the ids of the discovery sessions
  nleave,    \* leave requests that reached discovery.destroy()
  nread,     \* read requests that suspended: the ids of the waiters and timers
  nmsg,      \* msg records routed to a channel
  out,       \* what the last handler wrote: [replies, writes]
  handed,    \* observation: the entries put in read replies, in reply order
  accepted,  \* observation: the entries routed to a channel that is still joined
  pbuf,      \* peer.buf.length of every connection, aligned with conns
  dropped,   \* observation: the connections one of whose records was dropped
  far,       \* a second daemon, at the other end of connection 1, and the frames in
             \* flight between the two: [channels, peers, joins, njoin, toFar, toNear, sent]
  host       \* the working directory and the daemon processes started in it:
             \* [pidFile, sock, pc, oldPid]

vars == <<channels, peers, conns, swarm, joins, leaves, timers, reads,
          njoin, nleave, nread, nmsg, out, handed, accepted, pbuf, dropped, far, host>>

\* What lies around the handlers of one daemon.
env == <<pbuf, dropped, far, host>>

\* ---------------------------------------------------------------- helpers

\* this.channels.has(name)
Has(name) == \E i \in 1..Len(channels) : channels[i].name = name

\* The place of name in the Map.
Idx(name) == CHOOSE i \in 1..Len(channels) : channels[i].name = name

\* this.channels.get(name)
Get(name) == channels[Idx(name)]

\* Map.set: an existing key keeps its place and gets the new value.
MapSet(m, name, v) ==
  IF \E i \in 1..Len(m) : m[i].name = name
  THEN [i \in 1..Len(m) |-> IF m[i].name = name THEN v ELSE m[i]]
  ELSE Append(m, v)

\* Map.delete
MapDelete(m, name) == SelectSeq(m, LAMBDA c : c.name # name)

\* conn.writable: true from the connection on; what it reads once the connection is
\* destroyed is decided by the stream class of the mesh (see ConnDown).
Writable(c) == conns[c].writable

\* Buffer.byteLength(data)
ByteLength(data) == data.len

\* reply(d) of the request that suspended as read r (0: the request being executed).
Reply(r, d) == [to |-> r, body |-> d]

NoWrites == <<>>

\* The replies written to local clients, in order, and the frames written to each
\* peer connection, in order.
Out(replies, writes) == [replies |-> replies, writes |-> writes]

Range(f) == {f[x] : x \in DOMAIN f}

Min(S) == CHOOSE x \in S : \A y \in S : x <= y

\* The suspended reads after replies are written: each counts its replies (2 stands
\* for two or more).
CountReplies(rd, replies) ==
  [r \in DOMAIN rd |->
     [rd[r] EXCEPT !.replies =
        LET n == @ + Cardinality({i \in 1..Len(replies) : replies[i].to = r})
        IN IF n < 2 THEN n ELSE 2]]

\* The entries of a read reply, as handed out: read 0 is a read that did not suspend.
Hand(msgs, r, name) ==
  [i \in 1..Len(msgs) |-> [tag |-> msgs[i].data.tag, read |-> r, channel |-> name]]

\* ------------------------------------------------------------------- read

\* A read that suspends whenever the caller waits, whatever is buffered.
ReadNowUnlessWait(ch, wait) == ~wait

\* _exec, case 'read': the reply is immediate when something is buffered or the
\* caller does not wait.
ReadNow(ch, wait) == Len(ch.messages) > 0 \/ ~wait

\* A waiter that leaves its timer armed.
keepTimeout(tm, r) == tm

\* clearTimeout(timer) of read r
clearTimeout(tm, r) == tm \ {r}

\* ch.waiters.filter(w => w !== waiter)
filterWaiter(ws, r) == SelectSeq(ws, LAMBDA w : w # r)

\* The waiter of read r called with msgs: reply({ ok: true, messages: msgs }), line 140.
WaiterReply(r, msgs) == <<Reply(r, [ok |-> TRUE, messages |-> msgs])>>

\* A timer callback that writes nothing.
TimerSilent(r) == <<>>

\* The timer callback's reply({ ok: true, messages: [] }), line 135.
TimerReply(r) == <<Reply(r, [ok |-> TRUE, messages |-> <<>>])>>

\* The entries handed out by the replies to suspended reads of channel name.
HandOut(replies, name) ==
  IF replies = <<>> THEN <<>> ELSE Hand(replies[1].body.messages, replies[1].to, name)

\* _exec, case 'read'
ExecRead(name, wait) ==
  /\ IF ~Has(name)
     THEN /\ out' = Out(<<Reply(0, [ok |-> FALSE, error |-> <<"Not in channel: ", TemplateString(name)>>])>>, NoWrites)
          /\ UNCHANGED <<channels, timers, reads, nread, handed>>
     ELSE LET ch == Get(name) IN
          IF ReadNow(ch, wait)
          THEN /\ channels' = [channels EXCEPT ![Idx(name)].messages = <<>>]
               /\ out' = Out(<<Reply(0, [ok |-> TRUE, messages |-> ch.messages])>>, NoWrites)
               /\ handed' = handed \o Hand(ch.messages, 0, name)
               /\ UNCHANGED <<timers, reads, nread>>
          ELSE /\ nread < MaxReads
               /\ nread' = nread + 1
               /\ timers' = timers \cup {nread + 1}
               /\ reads' = reads @@ ((nread + 1) :>
                     [channel |-> name, ch |-> ch.discovery,
                      replies |-> 0, left |-> FALSE])
               /\ channels' = [channels EXCEPT ![Idx(name)].waiters = Append(@, nread + 1)]
               /\ out' = Out(<<>>, NoWrites)
               /\ UNCHANGED handed
  /\ UNCHANGED <<peers, conns, swarm, joins, leaves, njoin, nleave, nmsg, accepted>>

\* The timer callback of read r: lines 133-136.
TimerFire(r) ==
  /\ r \in timers
  /\ timers' = timers \ {r}
  /\ channels' = [i \in 1..Len(channels) |->
        IF channels[i].discovery = reads[r].ch
        THEN [channels[i] EXCEPT !.waiters = filterWaiter(@, r)]
        ELSE channels[i]]
  /\ reads' = CountReplies(reads, TimerReply(r))
  /\ out' = Out(TimerReply(r), NoWrites)
  /\ UNCHANGED <<peers, conns, swarm, joins, leaves, njoin, nleave, nread, nmsg, handed, accepted>>

\* ---------------------------------------------------------- inbound msg

\* A routing that hands the entry to the oldest waiter and buffers it as well.
RouteBoth(ch, entry) ==
  IF Len(ch.waiters) > 0
  THEN [ch |-> [ch EXCEPT !.waiters = Tail(@), !.messages = Append(@, entry)],
        call |-> <<Head(ch.waiters)>>]
  ELSE [ch |-> [ch EXCEPT !.messages = Append(@, entry)], call |-> <<>>]

\* _onPeerMsg, lines 294-299: the oldest waiter takes the entry, else the buffer.
Route(ch, entry) ==
  IF Len(ch.waiters) > 0
  THEN [ch |-> [ch EXCEPT !.waiters = Tail(@)], call |-> <<Head(ch.waiters)>>]
  ELSE [ch |-> [ch EXCEPT !.messages = Append(@, entry)], call |-> <<>>]

\* A size check that lets every record through.
OversizedNever(data) == FALSE

\* msg.data && Buffer.byteLength(msg.data) > MAX_MESSAGE_SIZE
Oversized(data) == ByteLength(data) > MAX_MESSAGE_SIZE

\* The channels whose topic is the record's, in Map order.
TopicHits(topic) == {i \in 1..Len(channels) : channels[i].topicHex = topic}

\* _onPeerMsg on a msg record read from connection c.
PeerMsg(c, topic, len) ==
  LET remoteKey == conns[c].key
      tag == nmsg + 1
      msg == [t |-> "msg", topic |-> topic, data |-> [tag |-> tag, len |-> len],
              id |-> RemoteId(remoteKey), ts |-> tag]
  IN
  /\ conns[c].st = "open"
  /\ nmsg < MaxMsgs
  /\ IF remoteKey \notin DOMAIN peers \/ Oversized(msg.data) \/ TopicHits(msg.topic) = {}
     THEN /\ out' = Out(<<>>, NoWrites)
          /\ UNCHANGED <<channels, timers, reads, handed, accepted, nmsg>>
     ELSE LET i == Min(TopicHits(msg.topic))
              ch == channels[i]
              entry == [from |-> IF msg.id # NoId THEN msg.id ELSE Slice8(remoteKey),
                        data |-> msg.data, ts |-> msg.ts]
              rt == Route(ch, entry)
          IN /\ nmsg' = tag
             /\ channels' = [channels EXCEPT ![i] = rt.ch]
             /\ accepted' = accepted \cup {[tag |-> tag, channel |-> ch.name]}
             /\ IF rt.call = <<>>
                THEN /\ out' = Out(<<>>, NoWrites)
                     /\ UNCHANGED <<timers, reads, handed>>
                ELSE LET r == rt.call[1]
                         rep == WaiterReply(r, <<entry>>)
                     IN
                     /\ timers' = clearTimeout(timers, r)
                     /\ reads' = CountReplies(reads, rep)
                     /\ out' = Out(rep, NoWrites)
                     /\ handed' = handed \o HandOut(rep, reads[r].channel)
  /\ UNCHANGED <<peers, conns, swarm, joins, leaves, njoin, nleave, nread>>

\* The data handler on a line of connection c that JSON.parse or _onPeerMsg
\* rejects: the catch of line 252 drops it.
PeerMalformed(c) ==
  /\ conns[c].st = "open"
  /\ out' = Out(<<>>, NoWrites)
  /\ UNCHANGED <<channels, peers, conns, swarm, joins, leaves, timers, reads, njoin, nleave,
                 nread, nmsg, handed, accepted>>

\* ------------------------------------------------------------ join, leave

\* Array.from(this.channels.values()).map(ch => ch.topicHex)
TopicsOf(chs) == [i \in 1..Len(chs) |-> chs[i].topicHex]

\* The hello record the daemon writes.
HelloFrame(chs) == [t |-> "hello", topics |-> TopicsOf(chs), id |-> DaemonId]

\* peer.knownTopics && peer.knownTopics.has(topic)
Knows(peer, topic) == peer.knownTopics # <<>> /\ topic \in peer.knownTopics[1]

\* A re-announcement that writes the hello and matches nobody.
_reannounceHello(chs, prs) ==
  [channels |-> chs,
   writes |-> [c \in {prs[k].conn : k \in {q \in DOMAIN prs : Writable(prs[q].conn)}} |->
      <<HelloFrame(chs)>>]]

\* _reannounce on registry chs and peers prs: the hello written to every writable
\* connection, and every peer whose last hello lists a channel's topic matched.
_reannounce(chs, prs) ==
  [channels |-> [i \in 1..Len(chs) |->
      [chs[i] EXCEPT !.peers = @ \cup {k \in DOMAIN prs : Knows(prs[k], chs[i].topicHex)}]],
   writes |-> [c \in {prs[k].conn : k \in {q \in DOMAIN prs : Writable(prs[q].conn)}} |->
      <<HelloFrame(chs)>>]]

\* A _joinChannel without the early return.
JoinNeverReturns(name) == FALSE

\* _joinChannel, line 178: the early return.
JoinReturns(name) == Has(name)

\* _exec, case 'join', up to the await of discovery.flushed().
ExecJoin(name, secret) ==
  /\ IF JoinReturns(name)
     THEN /\ out' = Out(<<Reply(0, [ok |-> TRUE, channel |-> name])>>, NoWrites)
          /\ UNCHANGED <<swarm, joins, njoin>>
     ELSE /\ njoin < MaxJoins
          /\ njoin' = njoin + 1
          /\ swarm' = swarm \cup {[id |-> njoin + 1, topic |-> TopicHex(name, secret)]}
          /\ joins' = joins \cup {[id |-> njoin + 1, name |-> name,
                                    topicHex |-> TopicHex(name, secret)]}
          /\ out' = Out(<<>>, NoWrites)
  /\ UNCHANGED <<channels, peers, conns, leaves, timers, reads, nleave, nread, nmsg, handed, accepted>>

\* _joinChannel from the await on: lines 187-195, then the reply of line 110.
JoinFlushed(j) ==
  LET newch == [name |-> j.name, topicHex |-> j.topicHex, discovery |-> j.id,
                peers |-> {}, messages |-> <<>>, waiters |-> <<>>]
      ra == _reannounce(MapSet(channels, j.name, newch), peers)
  IN
  /\ j \in joins
  /\ joins' = joins \ {j}
  /\ channels' = ra.channels
  /\ out' = Out(<<Reply(0, [ok |-> TRUE, channel |-> j.name])>>, ra.writes)
  /\ UNCHANGED <<peers, conns, swarm, leaves, timers, reads, njoin, nleave, nread, nmsg, handed, accepted>>

\* _exec, case 'leave', up to the await of ch.discovery.destroy().
ExecLeave(name) ==
  /\ IF ~Has(name)
     THEN /\ out' = Out(<<Reply(0, [ok |-> TRUE])>>, NoWrites)
          /\ UNCHANGED <<swarm, leaves, nleave>>
     ELSE /\ nleave < MaxLeaves
          /\ nleave' = nleave + 1
          /\ swarm' = {d \in swarm : d.id # Get(name).discovery}
          /\ leaves' = leaves \cup {[id |-> nleave + 1, name |-> name]}
          /\ out' = Out(<<>>, NoWrites)
  /\ UNCHANGED <<channels, peers, conns, joins, timers, reads, njoin, nread, nmsg, handed, accepted>>

\* _leaveChannel from the await on: line 222, then the reply of line 147.
LeaveDone(l) ==
  /\ l \in leaves
  /\ leaves' = leaves \ {l}
  /\ channels' = MapDelete(channels, l.name)
  /\ out' = Out(<<Reply(0, [ok |-> TRUE])>>, NoWrites)
  /\ accepted' = {a \in accepted : a.channel # l.name}
  /\ reads' = [r \in DOMAIN reads |->
        IF reads[r].channel = l.name THEN [reads[r] EXCEPT !.left = TRUE] ELSE reads[r]]
  /\ UNCHANGED <<peers, conns, swarm, joins, timers, njoin, nleave, nread, nmsg, handed>>

\* ------------------------------------------------------------------ peers

\* _onPeer: a connection from remoteKey, lines 227-235.
_onPeer(remoteKey) ==
  LET c == Len(conns) + 1 IN
  /\ Len(conns) < MaxConns
  /\ conns' = Append(conns, [key |-> remoteKey, st |-> "open", writable |-> TRUE])
  /\ peers' = [k \in DOMAIN peers \cup {remoteKey} |->
        IF k = remoteKey THEN [conn |-> c, knownTopics |-> <<>>]
        ELSE peers[k]]
  /\ out' = Out(<<>>, c :> <<HelloFrame(channels)>>)
  /\ UNCHANGED <<channels, swarm, joins, leaves, timers, reads, njoin, nleave, nread, nmsg, handed, accepted>>

\* _onPeerMsg, lines 273-279: the peer matched to every channel whose topic its
\* hello lists.
HelloMatch(chs, remoteKey, theirTopics) ==
  [i \in 1..Len(chs) |->
     IF chs[i].topicHex \in theirTopics
     THEN [chs[i] EXCEPT !.peers = @ \cup {remoteKey}]
     ELSE chs[i]]

\* The topic sets a remote hello may list.
HelloTopicSets ==
  {T \in SUBSET {TopicHex(n, x) : n \in Names, x \in RemoteSecrets} :
     Cardinality(T) <= MaxHelloTopics}

\* _onPeerMsg on a hello record read from connection c.
PeerHello(c, theirTopics) ==
  LET remoteKey == conns[c].key
  IN
  /\ conns[c].st = "open"
  /\ IF remoteKey \notin DOMAIN peers
     THEN UNCHANGED <<channels, peers>>
     ELSE /\ channels' = HelloMatch(channels, remoteKey, theirTopics)
          /\ peers' = [peers EXCEPT ![remoteKey].knownTopics = <<theirTopics>>]
  /\ out' = Out(<<>>, NoWrites)
  /\ UNCHANGED <<conns, swarm, joins, leaves, timers, reads, njoin, nleave, nread, nmsg, handed, accepted>>

\* The flag conn.writable of a connection that is destroyed: the stream class of
\* the mesh decides it, and it either stays true, through the close event too, or
\* turns false.
DestroyedWritable == BOOLEAN

\* The connection is destroyed (an error and conn.destroy(), line 262, or the remote
\* end going away); its close event is still to come.
ConnDown(c) ==
  /\ conns[c].st = "open"
  /\ \E w \in DestroyedWritable :
        conns' = [conns EXCEPT ![c].st = "destroyed", ![c].writable = w]
  /\ out' = Out(<<>>, NoWrites)
  /\ UNCHANGED <<channels, peers, swarm, joins, leaves, timers, reads, njoin, nleave, nread, nmsg,
                 handed, accepted>>

\* A close handler that deletes the Peer entry and leaves the matched-peer sets.
PeerCloseEntryOnly(c) ==
  LET remoteKey == conns[c].key IN
  /\ conns[c].st = "destroyed"
  /\ conns' = [conns EXCEPT ![c].st = "closed"]
  /\ peers' = [k \in DOMAIN peers \ {remoteKey} |-> peers[k]]
  /\ out' = Out(<<>>, NoWrites)
  /\ UNCHANGED <<channels, swarm, joins, leaves, timers, reads, njoin, nleave, nread, nmsg,
                 handed, accepted>>

\* conn.on('close'), lines 257-260.
PeerClose(c) ==
  LET remoteKey == conns[c].key IN
  /\ conns[c].st = "destroyed"
  /\ conns' = [conns EXCEPT ![c].st = "closed"]
  /\ channels' = [i \in 1..Len(channels) |->
        [channels[i] EXCEPT !.peers = @ \ {remoteKey}]]
  /\ peers' = [k \in DOMAIN peers \ {remoteKey} |-> peers[k]]
  /\ out' = Out(<<>>, NoWrites)
  /\ UNCHANGED <<swarm, joins, leaves, timers, reads, njoin, nleave, nread, nmsg, handed, accepted>>

\* ------------------------------------------------------------------- send

\* A fan-out that does not look at conn.writable.
SendTargetsAny(ch) == {k \in ch.peers : k \in DOMAIN peers}

\* _send, lines 321-327: the matched peers with a writable connection.
SendTargets(ch) ==
  {k \in ch.peers : k \in DOMAIN peers /\ Writable(peers[k].conn)}

\* _send, lines 312-318.
MsgFrame(ch, message) ==
  [t |-> "msg", topic |-> ch.topicHex, data |-> message, id |-> DaemonId, ts |-> Now]

\* A _send that counts no delivery on a channel that is not joined.
_sendQuiet(channelName, message) ==
  IF ~Has(channelName)
  THEN [throws |-> FALSE, error |-> <<>>, writes |-> NoWrites, count |-> 0]
  ELSE LET ch == Get(channelName) IN
       [throws |-> FALSE, error |-> <<>>,
        writes |-> [c \in {peers[k].conn : k \in SendTargets(ch)} |-> <<MsgFrame(ch, message)>>],
        count |-> Cardinality(SendTargets(ch))]

\* _send: it throws when the channel is not joined (line 310); else one frame is
\* written to every target and the writes are counted.
_send(channelName, message) ==
  IF ~Has(channelName)
  THEN [throws |-> TRUE, error |-> <<"Not in channel: ", TemplateString(channelName)>>,
        writes |-> NoWrites, count |-> 0]
  ELSE LET ch == Get(channelName) IN
       [throws |-> FALSE, error |-> <<>>,
        writes |-> [c \in {peers[k].conn : k \in SendTargets(ch)} |-> <<MsgFrame(ch, message)>>],
        count |-> Cardinality(SendTargets(ch))]

\* cmd.message && Buffer.byteLength(cmd.message) > MAX_MESSAGE_SIZE
TooLarge(message) == message.len > 0 /\ ByteLength(message) > MAX_MESSAGE_SIZE

\* _exec, case 'send'; the catch of line 170 turns a throw into an error reply.
ExecSend(name, len) ==
  LET message == [len |-> len]
      res == _send(name, message)
  IN
  /\ out' = IF TooLarge(message)
            THEN Out(<<Reply(0, [ok |-> FALSE, error |->
                       <<"Message too large (max KB)", MAX_MESSAGE_SIZE \div 1024>>])>>, NoWrites)
            ELSE IF res.throws
            THEN Out(<<Reply(0, [ok |-> FALSE, error |-> res.error])>>, NoWrites)
            ELSE Out(<<Reply(0, [ok |-> TRUE, delivered |-> res.count])>>, res.writes)
  /\ UNCHANGED <<channels, peers, conns, swarm, joins, leaves, timers, reads, njoin, nleave,
                 nread, nmsg, handed, accepted>>

\* ---------------------------------------------------------- specification

\* The second daemon after its constructor, lines 23-28, and an empty link.
FarInit ==
  [channels |-> <<>>, peers |-> <<>>, joins |-> {}, njoin |-> 0,
   toFar |-> <<>>, toNear |-> <<>>, sent |-> <<>>]

\* The processes about to be started, the pids being 1..MaxProcs.
Procs == 1..MaxProcs

\* An empty working directory: no pid file, no socket path; no process started.
HostInit ==
  [pidFile |-> 0, sock |-> 0, pc |-> [p \in Procs |-> "idle"], oldPid |-> [p \in Procs |-> 0]]

Init ==
  /\ channels = <<>>
  /\ peers = <<>>
  /\ conns = <<>>
  /\ swarm = {}
  /\ joins = {}
  /\ leaves = {}
  /\ timers = {}
  /\ reads = <<>>
  /\ njoin = 0
  /\ nleave = 0
  /\ nread = 0
  /\ nmsg = 0
  /\ out = Out(<<>>, NoWrites)
  /\ handed = <<>>
  /\ accepted = {}
  /\ pbuf = [c \in 1..MaxConns |-> 0]
  /\ dropped = {}
  /\ far = FarInit
  /\ host = HostInit

Next ==
  \/ \E name \in Names, secret \in Secrets : ExecJoin(name, secret) /\ UNCHANGED env
  \/ \E j \in joins : JoinFlushed(j) /\ UNCHANGED env
  \/ \E name \in Names : ExecLeave(name) /\ UNCHANGED env
  \/ \E l \in leaves : LeaveDone(l) /\ UNCHANGED env
  \/ \E name \in Names, wait \in BOOLEAN : ExecRead(name, wait) /\ UNCHANGED env
  \/ \E r \in timers : TimerFire(r) /\ UNCHANGED env
  \/ \E name \in Names, len \in Lens : ExecSend(name, len) /\ UNCHANGED env
  \/ \E k \in RemoteKeys : _onPeer(k) /\ UNCHANGED env
  \/ \E c \in 1..Len(conns), T \in HelloTopicSets : PeerHello(c, T) /\ UNCHANGED env
  \/ \E c \in 1..Len(conns), topic \in AllTopics, len \in Lens \ {0} : PeerMsg(c, topic, len) /\ UNCHANGED env
  \/ \E c \in 1..Len(conns) : ConnDown(c) /\ UNCHANGED env
  \/ \E c \in 1..Len(conns) : PeerClose(c) /\ UNCHANGED env

Spec == Init /\ [][Next]_vars

\* The reading side: hello and send, which write neither a buffer, a waiter nor a
\* timer, are left out, and one connection, which stays open, delivers the msg
\* records.
NextReads ==
  \/ \E name \in Names, secret \in Secrets : ExecJoin(name, secret) /\ UNCHANGED env
  \/ \E j \in joins : JoinFlushed(j) /\ UNCHANGED env
  \/ \E name \in Names : ExecLeave(name) /\ UNCHANGED env
  \/ \E l \in leaves : LeaveDone(l) /\ UNCHANGED env
  \/ \E name \in Names, wait \in BOOLEAN : ExecRead(name, wait) /\ UNCHANGED env
  \/ \E r \in timers : TimerFire(r) /\ UNCHANGED env
  \/ \E k \in RemoteKeys : Len(conns) < MaxReadConns /\ _onPeer(k) /\ UNCHANGED env
  \/ \E c \in 1..Len(conns), topic \in AllTopics, len \in Lens \ {0} : PeerMsg(c, topic, len) /\ UNCHANGED env

SpecReads == Init /\ [][NextReads]_vars

\* setTimeout: an armed timer that is not cleared fires.
SpecReadsFair == SpecReads /\ \A r \in 1..MaxReads : WF_vars(TimerFire(r) /\ UNCHANGED env)

\* The sending side: reads, timers and msg records, which write neither the peer
\* registry nor a matched-peer set, are left out.
NextPeers ==
  \/ \E name \in Names, secret \in Secrets : ExecJoin(name, secret) /\ UNCHANGED env
  \/ \E j \in joins : JoinFlushed(j) /\ UNCHANGED env
  \/ \E name \in Names : ExecLeave(name) /\ UNCHANGED env
  \/ \E l \in leaves : LeaveDone(l) /\ UNCHANGED env
  \/ \E name \in Names, len \in Lens : ExecSend(name, len) /\ UNCHANGED env
  \/ \E k \in RemoteKeys : _onPeer(k) /\ UNCHANGED env
  \/ \E c \in 1..Len(conns), T \in HelloTopicSets : PeerHello(c, T) /\ UNCHANGED env
  \/ \E c \in 1..Len(conns) : ConnDown(c) /\ UNCHANGED env
  \/ \E c \in 1..Len(conns) : PeerClose(c) /\ UNCHANGED env

SpecPeers == Init /\ [][NextPeers]_vars

\* This daemon joins under the secrets the remote daemons do not hold: joins,
\* leaves, connections and hellos in any order.
NextSecrets ==
  \/ \E name \in Names, secret \in Secrets \ RemoteSecrets : ExecJoin(name, secret) /\ UNCHANGED env
  \/ \E j \in joins : JoinFlushed(j) /\ UNCHANGED env
  \/ \E name \in Names : ExecLeave(name) /\ UNCHANGED env
  \/ \E l \in leaves : LeaveDone(l) /\ UNCHANGED env
  \/ \E k \in RemoteKeys : _onPeer(k) /\ UNCHANGED env
  \/ \E c \in 1..Len(conns), T \in HelloTopicSets : PeerHello(c, T) /\ UNCHANGED env

SpecSecrets == Init /\ [][NextSecrets]_vars

\* The joining side: a channel gathers matched peers, buffered entries and waiters,
\* and is joined again.
NextJoins ==
  \/ \E name \in Names, secret \in Secrets : ExecJoin(name, secret) /\ UNCHANGED env
  \/ \E j \in joins : JoinFlushed(j) /\ UNCHANGED env
  \/ \E name \in Names, wait \in BOOLEAN : ExecRead(name, wait) /\ UNCHANGED env
  \/ \E k \in RemoteKeys : Len(conns) < MaxReadConns /\ _onPeer(k) /\ UNCHANGED env
  \/ \E c \in 1..Len(conns), T \in HelloTopicSets : PeerHello(c, T) /\ UNCHANGED env
  \/ \E c \in 1..Len(conns), topic \in AllTopics, len \in Lens \ {0} : PeerMsg(c, topic, len) /\ UNCHANGED env

SpecJoins == Init /\ [][NextJoins]_vars

\* peer.buf.length > MAX_PEER_BUFFER, line 241.
Overflows(buflen) == buflen > MAX_PEER_BUFFER

\* What a data event brings: bytes that end no line, or the end of one line, which
\* is malformed, a hello or a msg.
Records ==
  {[t |-> x, topics |-> {}, topic |-> <<>>, len |-> 0] : x \in {"none", "bad"}}
  \cup {[t |-> "hello", topics |-> T, topic |-> <<>>, len |-> 0] : T \in HelloTopicSets}
  \cup {[t |-> "msg", topics |-> {}, topic |-> x, len |-> l] :
           x \in {TopicHex(n, q) : n \in Names, q \in RemoteSecrets}, l \in Lens \ {0}}

\* The first record of connection c that was dropped, and the number of records
\* routed before it.
Drop(c) ==
  IF \E d \in dropped : d.conn = c THEN dropped
  ELSE dropped \cup {[conn |-> c, at |-> nmsg]}

\* conn.on('data'), lines 237-255, on n bytes of connection c that bring rec: over
\* the limit the connection is destroyed and nothing is parsed; else the line, if
\* one ends, is taken from the buffer and handled.
Data(c, n, rec) ==
  /\ conns[c].st = "open"
  /\ IF Overflows(pbuf[c] + n)
     THEN /\ pbuf' = [pbuf EXCEPT ![c] = @ + n]
          /\ \E w \in DestroyedWritable :
                conns' = [conns EXCEPT ![c].st = "destroyed", ![c].writable = w]
          /\ out' = Out(<<>>, NoWrites)
          /\ UNCHANGED <<channels, peers, swarm, joins, leaves, timers, reads, njoin, nleave,
                         nread, nmsg, handed, accepted, dropped>>
     ELSE CASE rec.t = "none" ->
                 /\ pbuf' = [pbuf EXCEPT ![c] = @ + n]
                 /\ out' = Out(<<>>, NoWrites)
                 /\ UNCHANGED <<channels, peers, conns, swarm, joins, leaves, timers, reads,
                                njoin, nleave, nread, nmsg, handed, accepted, dropped>>
            [] rec.t = "bad" ->
                 /\ PeerMalformed(c)
                 /\ pbuf' = [pbuf EXCEPT ![c] = 0]
                 /\ dropped' = Drop(c)
            [] rec.t = "hello" ->
                 /\ PeerHello(c, rec.topics)
                 /\ pbuf' = [pbuf EXCEPT ![c] = 0]
                 /\ UNCHANGED dropped
            [] rec.t = "msg" ->
                 /\ PeerMsg(c, rec.topic, rec.len)
                 /\ pbuf' = [pbuf EXCEPT ![c] = 0]
                 /\ dropped' = IF nmsg' = nmsg THEN Drop(c) ELSE dropped
  /\ UNCHANGED <<far, host>>

\* The records of one peer: whole lines, some malformed, some oversized, arrive on
\* one connection while channels are joined, under the secrets the peer holds, and
\* read.
NextDrops ==
  \/ \E name \in Names, secret \in RemoteSecrets : ExecJoin(name, secret) /\ UNCHANGED env
  \/ \E j \in joins : JoinFlushed(j) /\ UNCHANGED env
  \/ \E name \in Names, wait \in BOOLEAN : ExecRead(name, wait) /\ UNCHANGED env
  \/ \E k \in RemoteKeys : Len(conns) < MaxReadConns /\ _onPeer(k) /\ UNCHANGED env
  \/ \E c \in 1..Len(conns), rec \in {r \in Records : r.t # "none"} :
        Data(c, MAX_PEER_BUFFER \div 2, rec)

SpecDrops == Init /\ [][NextDrops]_vars

\* The data events of the connections, hellos and bytes that end no line, which
\* pass the peer buffer limit, and the close events that follow.
NextOverflow ==
  \/ \E name \in Names, secret \in RemoteSecrets : ExecJoin(name, secret) /\ UNCHANGED env
  \/ \E j \in joins : JoinFlushed(j) /\ UNCHANGED env
  \/ \E k \in RemoteKeys : _onPeer(k) /\ UNCHANGED env
  \/ \E c \in 1..Len(conns), n \in ChunkLens, rec \in {r \in Records : r.t \in {"none", "hello"}} :
        Data(c, n, rec)
  \/ \E c \in 1..Len(conns) : PeerClose(c) /\ UNCHANGED env

SpecOverflow == Init /\ [][NextOverflow]_vars

\* ---------------------------------------------------------------- startup

\* The registries and the requests of one daemon, which no startup step writes.
daemon == <<channels, peers, conns, swarm, joins, leaves, timers, reads,
            njoin, nleave, nread, nmsg, out, handed, accepted>>

\* process.kill(pid, 0) does not throw: the process was started and has not ended.
Alive(pid) == pid \in Procs /\ host.pc[pid] \notin {"idle", "exited", "dead"}

\* start, line 42: readFileSync(PID_FILE); a missing file throws into the catch of
\* line 50, a pid other than the process's own goes to the liveness check.
StartRead(p) ==
  /\ host.pc[p] = "idle"
  /\ host' = [host EXCEPT !.oldPid[p] = host.pidFile,
                          !.pc[p] = IF host.pidFile # 0 /\ host.pidFile # p
                                    THEN "check" ELSE "write"]
  /\ UNCHANGED <<daemon, pbuf, dropped, far>>

\* start, lines 44-48: a live oldPid ends the process with exit(1), a dead one is
\* a stale pid file.
StartCheck(p) ==
  /\ host.pc[p] = "check"
  /\ host' = [host EXCEPT !.pc[p] = IF Alive(host.oldPid[p]) THEN "exited" ELSE "write"]
  /\ UNCHANGED <<daemon, pbuf, dropped, far>>

\* start, line 52: writeFileSync(PID_FILE, process.pid)
StartWrite(p) ==
  /\ host.pc[p] = "write"
  /\ host' = [host EXCEPT !.pidFile = p, !.pc[p] = "unlink"]
  /\ UNCHANGED <<daemon, pbuf, dropped, far>>

\* start, line 55: unlinkSync(SOCKET_PATH), whoever bound it.
StartUnlink(p) ==
  /\ host.pc[p] = "unlink"
  /\ host' = [host EXCEPT !.sock = 0, !.pc[p] = "bind"]
  /\ UNCHANGED <<daemon, pbuf, dropped, far>>

\* start, lines 58-59: server.listen(SOCKET_PATH); on a path that exists the bind
\* fails and the server's error event, which has no handler, ends the process.
StartBind(p) ==
  /\ host.pc[p] = "bind"
  /\ host' = IF host.sock = 0
             THEN [host EXCEPT !.sock = p, !.pc[p] = "serving"]
             ELSE [host EXCEPT !.pc[p] = "dead"]
  /\ UNCHANGED <<daemon, pbuf, dropped, far>>

\* shutdown, line 334, run by SIGTERM, by SIGINT and by the request 'stop' (lines
\* 162-164) of a process that has bound: unlinkSync(SOCKET_PATH), whoever bound it.
\* The server is not closed: the process lives and answers until the exit, and a
\* second signal or 'stop', handled during the await of line 340, runs shutdown
\* again.
Shutdown(p) ==
  /\ host.pc[p] \in {"serving", "stopping"}
  /\ host' = [host EXCEPT !.sock = 0, !.pc[p] = "unlinkPid"]
  /\ UNCHANGED <<daemon, pbuf, dropped, far>>

\* shutdown, lines 335-340: unlinkSync(PID_FILE), whoever wrote it, up to the await
\* of swarm.destroy().
ShutdownPid(p) ==
  /\ host.pc[p] = "unlinkPid"
  /\ host' = [host EXCEPT !.pidFile = 0, !.pc[p] = "stopping"]
  /\ UNCHANGED <<daemon, pbuf, dropped, far>>

\* shutdown from the await on, line 341: process.exit(0).
ShutdownExit(p) ==
  /\ host.pc[p] = "stopping"
  /\ host' = [host EXCEPT !.pc[p] = "exited"]
  /\ UNCHANGED <<daemon, pbuf, dropped, far>>

\* The process is killed, at any point of start() or later: its files stay behind.
Killed(p) ==
  /\ Alive(p)
  /\ host' = [host EXCEPT !.pc[p] = "dead"]
  /\ UNCHANGED <<daemon, pbuf, dropped, far>>

\* The process has a listening server: server.listen succeeded and the process has
\* not ended (no step closes the server).
Listening(p) == host.pc[p] \in {"serving", "unlinkPid", "stopping"}

\* The processes run start() one system call at a time, in any interleaving.
NextStart ==
  \/ \E p \in Procs : StartRead(p)
  \/ \E p \in Procs : StartCheck(p)
  \/ \E p \in Procs : StartWrite(p)
  \/ \E p \in Procs : StartUnlink(p)
  \/ \E p \in Procs : StartBind(p)
  \/ \E p \in Procs : Shutdown(p)
  \/ \E p \in Procs : ShutdownPid(p)
  \/ \E p \in Procs : ShutdownExit(p)
  \/ \E p \in Procs : Killed(p)

SpecStart == Init /\ [][NextStart]_vars

\* ------------------------------------------------------------ two daemons

\* The identity the near daemon sees the far one under, the id the far daemon puts
\* in its records, and the identity the far daemon sees the near one under.
FarKey == ToHex("p1")
FarId == RemoteId(FarKey)
NearKey == ToHex("p0")

\* this.channels.has(name) and this.channels.get(name) of the far daemon.
FarHas(name) == \E i \in 1..Len(far.channels) : far.channels[i].name = name
FarGet(name) == far.channels[CHOOSE i \in 1..Len(far.channels) : far.channels[i].name = name]

\* The frames a handler wrote to connection 1, in order.
PairWrites(w) == IF 1 \in DOMAIN w THEN w[1] ELSE <<>>

\* The frames of the far daemon carry its id.
FarFrames(frames) == [i \in 1..Len(frames) |-> [frames[i] EXCEPT !.id = FarId]]

\* The near daemon's _joinChannel up to the await, of a name neither joined nor
\* being joined.
PairJoin(name, secret) ==
  /\ ~Has(name)
  /\ ~\E j \in joins : j.name = name
  /\ ExecJoin(name, secret)
  /\ UNCHANGED env

\* The near daemon's _joinChannel from the await on: its hello goes on the link.
PairFlushed(j) ==
  /\ JoinFlushed(j)
  /\ far' = [far EXCEPT !.toFar = @ \o PairWrites(out'.writes)]
  /\ UNCHANGED <<pbuf, dropped, host>>

\* The near daemon's _onPeer on the one connection.
PairConnect ==
  /\ Len(conns) = 0
  /\ _onPeer(FarKey)
  /\ far' = [far EXCEPT !.toFar = @ \o PairWrites(out'.writes)]
  /\ UNCHANGED <<pbuf, dropped, host>>

\* The near daemon's data handler on the next frame of the link.
NearRecv ==
  /\ Len(conns) >= 1
  /\ far.toNear # <<>>
  /\ LET f == Head(far.toNear) IN
     IF f.t = "hello" THEN PeerHello(1, Range(f.topics))
     ELSE PeerMsg(1, f.topic, f.data.len)
  /\ far' = [far EXCEPT !.toNear = Tail(@)]
  /\ UNCHANGED <<pbuf, dropped, host>>

\* The near daemon's read, which does not wait.
PairRead(name) == ExecRead(name, FALSE) /\ UNCHANGED env

\* The far daemon's _onPeer, lines 227-235. It runs after the near one: until both
\* have run, neither end has read a frame of the other.
FarConnect ==
  /\ Len(conns) >= 1
  /\ NearKey \notin DOMAIN far.peers
  /\ far' = [far EXCEPT
        !.peers = NearKey :> [conn |-> 1, knownTopics |-> <<>>],
        !.toNear = @ \o FarFrames(<<HelloFrame(far.channels)>>)]
  /\ UNCHANGED <<daemon, pbuf, dropped, host>>

\* The far daemon's _joinChannel up to the await, lines 177-184.
FarJoin(name, secret) ==
  /\ ~FarHas(name)
  /\ ~\E j \in far.joins : j.name = name
  /\ far.njoin < MaxJoins
  /\ far' = [far EXCEPT
        !.njoin = @ + 1,
        !.joins = @ \cup {[id |-> far.njoin + 1, name |-> name,
                            topicHex |-> TopicHex(name, secret)]}]
  /\ UNCHANGED <<daemon, pbuf, dropped, host>>

\* The far daemon's _joinChannel from the await on, lines 187-195.
FarFlushed(j) ==
  LET newch == [name |-> j.name, topicHex |-> j.topicHex, discovery |-> j.id,
                peers |-> {}, messages |-> <<>>, waiters |-> <<>>]
      ra == _reannounce(MapSet(far.channels, j.name, newch), far.peers)
  IN
  /\ j \in far.joins
  /\ far' = [far EXCEPT
        !.joins = @ \ {j},
        !.channels = ra.channels,
        !.toNear = @ \o FarFrames(PairWrites(ra.writes))]
  /\ UNCHANGED <<daemon, pbuf, dropped, host>>

\* The far daemon's _onPeerMsg on the next frame of the link, a hello: lines 269-281.
FarRecv ==
  /\ NearKey \in DOMAIN far.peers
  /\ far.toFar # <<>>
  /\ LET f == Head(far.toFar) IN
     far' = [far EXCEPT
        !.toFar = Tail(@),
        !.channels = IF f.t = "hello" THEN HelloMatch(@, NearKey, Range(f.topics)) ELSE @,
        !.peers = IF f.t = "hello"
                  THEN [@ EXCEPT ![NearKey].knownTopics = <<Range(f.topics)>>] ELSE @]
  /\ UNCHANGED <<daemon, pbuf, dropped, host>>

\* The far daemon's send of len bytes, within the size limit, on a channel it has
\* joined: _send, lines 308-329.
FarSend(name, len) ==
  /\ FarHas(name)
  /\ len <= MAX_MESSAGE_SIZE
  /\ Len(far.sent) < MaxMsgs
  /\ LET ch == FarGet(name)
         targets == {k \in ch.peers : k \in DOMAIN far.peers /\ Writable(far.peers[k].conn)}
     IN /\ targets # {}
        /\ far' = [far EXCEPT
              !.toNear = @ \o FarFrames(<<MsgFrame(ch, [len |-> len])>>),
              !.sent = Append(@, [len |-> len, name |-> name])]
  /\ UNCHANGED <<daemon, pbuf, dropped, host>>

\* Two daemons and one connection between them: each joins names once, the far one
\* under the secrets of RemoteSecrets and the near one under any; the far one sends
\* and the near one reads.
NextPair ==
  \/ \E name \in Names, secret \in Secrets : PairJoin(name, secret)
  \/ \E j \in joins : PairFlushed(j)
  \/ PairConnect
  \/ NearRecv
  \/ \E name \in Names : PairRead(name)
  \/ FarConnect
  \/ \E name \in Names, secret \in RemoteSecrets : FarJoin(name, secret)
  \/ \E j \in far.joins : FarFlushed(j)
  \/ FarRecv
  \/ \E name \in Names, len \in Lens \ {0} : FarSend(name, len)

SpecPair == Init /\ [][NextPair]_vars

\* A flush resolves, a frame written is read, a handler that is due runs.
SpecPairFair ==
  /\ SpecPair
  /\ \A id \in 1..MaxJoins :
       /\ WF_vars(\E j \in joins : j.id = id /\ PairFlushed(j))
       /\ WF_vars(\E j \in far.joins : j.id = id /\ FarFlushed(j))
  /\ WF_vars(NearRecv)
  /\ WF_vars(FarRecv)

\* ----------------------------------------------------------------- claims

\* The waiters of every channel of the registry.
Waiting == UNION {Range(channels[i].waiters) : i \in 1..Len(channels)}

\* Where the entry with payload tag is: in read replies and in buffers.
Places(tag) ==
  {<<"handed", i, 0>> : i \in {h \in 1..Len(handed) : handed[h].tag = tag}}
  \cup UNION {{<<"buffer", i, k>> : k \in {m \in 1..Len(channels[i].messages) :
                  channels[i].messages[m].data.tag = tag}} : i \in 1..Len(channels)}

\* The reads resolved by a msg record, and those resolved by their timer.
ByMessage == {handed[i].read : i \in 1..Len(handed)} \ {0}
ByTimer == {r \in DOMAIN reads : reads[r].replies = 1} \ ByMessage

\* C1: in every channel of the registry, the buffered messages and the waiting
\* readers are never both non-empty.
C1_BufferOrWaiters ==
  \A i \in 1..Len(channels) :
    Len(channels[i].messages) = 0 \/ Len(channels[i].waiters) = 0

\* A reader waits on one channel while another channel holds a buffered entry.
C1_Witness ==
  \E i, j \in 1..Len(channels) :
    Len(channels[i].waiters) > 0 /\ Len(channels[j].messages) > 0

\* C2: every routed msg record is in at most one place: one read reply or one
\* slot of one buffer, so it is in at most one reply and resolves at most one read.
C2_OneDestination == \A tag \in 1..nmsg : Cardinality(Places(tag)) <= 1

\* One entry went to a waiter and another was drained from the buffer by a read.
C2_Witness ==
  \E i, j \in 1..Len(handed) : handed[i].read > 0 /\ handed[j].read = 0

\* C3: every entry routed to a channel that has not been left since is still in the
\* channel's buffer or has been put in a read reply.
C3_NoEntryLost ==
  \A a \in accepted :
    \/ \E i \in 1..Len(handed) : handed[i].tag = a.tag
    \/ /\ Has(a.channel)
       /\ \E k \in 1..Len(Get(a.channel).messages) :
            Get(a.channel).messages[k].data.tag = a.tag

\* The reads suspended on channel name that no reply and no leave has ended.
Suspended(name) ==
  {q \in timers : reads[q].channel = name /\ ~reads[q].left /\ reads[q].replies = 0}

\* C4: a msg record that resolves a waiter resolves the oldest read still suspended
\* on the channel, and the entries handed out for a channel are in arrival order.
C4_Fifo ==
  [][/\ (Len(handed') > Len(handed) /\ handed'[Len(handed')].read > 0) =>
          LET h == handed'[Len(handed')] IN
          /\ h.read \in Suspended(h.channel)
          /\ \A q \in Suspended(h.channel) : h.read <= q
     /\ \A i, j \in 1..Len(handed') :
          (i < j /\ handed'[i].channel = handed'[j].channel) =>
             handed'[i].tag < handed'[j].tag]_vars

\* C5: a suspended read is replied to only by its own timer or by a msg record
\* routed to its channel; when its timer fires the reply is {ok, messages: []}; and
\* with the timer eventually firing it is replied to.
C5_TimeoutReply ==
  /\ [][\A r \in DOMAIN reads :
          /\ (reads'[r].replies # reads[r].replies) =>
                \/ TimerFire(r)
                \/ /\ nmsg' = nmsg + 1
                   /\ handed' = Append(handed, [tag |-> nmsg', read |-> r,
                                                channel |-> reads[r].channel])
          /\ (r \in timers /\ r \notin timers' /\ nmsg' = nmsg) =>
                /\ out'.replies = <<Reply(r, [ok |-> TRUE, messages |-> <<>>])>>
                /\ reads'[r].replies = reads[r].replies + 1]_vars
  /\ \A r \in 1..MaxReads :
       (r \in timers) ~> (r \in DOMAIN reads /\ r \notin timers /\ reads[r].replies = 1)

\* A read was replied to by its timer.
C5_Witness == ByTimer # {}

\* C6: a suspended read has at most one reply; once replied to, its timer is not
\* armed and it is in no waiter queue; until then its timer is armed.
C6_ResolvedOnce ==
  \A r \in DOMAIN reads :
    /\ reads[r].replies <= 1
    /\ reads[r].replies = 1 => (r \notin timers /\ r \notin Waiting)
    /\ reads[r].replies = 0 => r \in timers

\* One read was resolved by a msg record and another by its timer.
C6_Witness == ByMessage # {} /\ ByTimer # {}

\* C7: when leave removes a channel, every read waiting on it has been replied to.
C7_LeaveResolvesWaiters ==
  [][\A l \in leaves :
       (LeaveDone(l) /\ Has(l.name)) =>
          \A r \in Range(Get(l.name).waiters) : reads'[r].replies >= 1]_vars

\* C8: a join of a name that is in the registry changes neither the registry, the
\* peers nor the discovery sessions, starts no join, and replies {ok, channel}.
C8_JoinIdempotent ==
  [][\A name \in Names, secret \in Secrets :
       (Has(name) /\ ExecJoin(name, secret)) =>
          /\ channels' = channels
          /\ peers' = peers
          /\ swarm' = swarm
          /\ joins' = joins
          /\ out' = Out(<<Reply(0, [ok |-> TRUE, channel |-> name])>>, NoWrites)]_vars

\* A channel with a matched peer and a buffered entry, beside a channel with a
\* waiter, was joined again.
C8_Witness ==
  \E name \in Names :
    /\ Has(name)
    /\ Get(name).peers # {}
    /\ Get(name).messages # <<>>
    /\ Waiting # {}
    /\ out = Out(<<Reply(0, [ok |-> TRUE, channel |-> name])>>, NoWrites)

\* What C9 says of a send of a payload of len bytes on channel name.
C9_SendCase(name, len) ==
  /\ ~Has(name) =>
       /\ out' = Out(<<Reply(0, [ok |-> FALSE, error |-> <<"Not in channel: ", TemplateString(name)>>])>>,
                     NoWrites)
       /\ UNCHANGED <<channels, peers>>
  /\ (Has(name) /\ Get(name).peers = {}) =>
       out' = Out(<<Reply(0, [ok |-> TRUE, delivered |-> 0])>>, NoWrites)

\* C9 as stated: every send on a name that is not joined is answered NotInChannel,
\* and every send on a joined channel without matched peers {ok, delivered: 0}.
C9_AnySend ==
  [][\A name \in Names, len \in Lens : ExecSend(name, len) => C9_SendCase(name, len)]_vars

\* C9, amended: so it is for every send whose payload is within the size limit.
C9_SendWithinLimit ==
  [][\A name \in Names, len \in Lens :
       (ExecSend(name, len) /\ len <= MAX_MESSAGE_SIZE) => C9_SendCase(name, len)]_vars

\* With a peer connected, a send on a name that is not joined was answered
\* NotInChannel.
C9_Witness ==
  \E name \in Names :
    /\ ~Has(name)
    /\ DOMAIN peers # {}
    /\ out = Out(<<Reply(0, [ok |-> FALSE, error |-> <<"Not in channel: ", TemplateString(name)>>])>>, NoWrites)

\* The matched peers of ch that are registered with a writable connection.
C10_Writable(ch) ==
  {k \in ch.peers : k \in DOMAIN peers /\ Writable(peers[k].conn)}

\* The msg envelope of a send of message on ch.
C10_Envelope(ch, message) ==
  [t |-> "msg", topic |-> ch.topicHex, data |-> message, id |-> DaemonId, ts |-> Now]

\* C10: a send, of a payload within the size limit, on a joined channel writes one
\* msg envelope to the connection of each matched peer whose connection is writable,
\* to no other connection, and replies the number of those peers as delivered.
C10_SendFanOut ==
  [][\A name \in Names, len \in Lens :
       (ExecSend(name, len) /\ Has(name) /\ len <= MAX_MESSAGE_SIZE) =>
          LET ch == Get(name) IN
          /\ out'.writes = [c \in {peers[k].conn : k \in C10_Writable(ch)} |->
                              <<C10_Envelope(ch, [len |-> len])>>]
          /\ out'.replies = <<Reply(0, [ok |-> TRUE,
                               delivered |-> Cardinality(C10_Writable(ch))])>>]_vars

\* A send was delivered to one peer of a channel matched with two, one of which is
\* not writable.
C10_Witness ==
  \E name \in Names :
    /\ Has(name)
    /\ Cardinality(Get(name).peers) = 2
    /\ Cardinality(C10_Writable(Get(name))) = 1
    /\ out.replies = <<Reply(0, [ok |-> TRUE, delivered |-> 1])>>
    /\ DOMAIN out.writes = {peers[k].conn : k \in C10_Writable(Get(name))}

\* C11: the remote daemons hold the secrets of RemoteSecrets only; a channel joined
\* here under any other secret never has a matched peer, whatever its name.
C11_DifferentSecretsNeverMatch ==
  \A i \in 1..Len(channels), n \in Names, s \in Secrets \ RemoteSecrets :
    channels[i].topicHex = TopicHex(n, s) => channels[i].peers = {}

\* C13: every identity in a matched-peer set is a key of the Peer registry, and the
\* close event of a connection leaves its identity in neither.
C13_ClosedPeerGone ==
  /\ [](\A i \in 1..Len(channels) : channels[i].peers \subseteq DOMAIN peers)
  /\ [][\A c \in 1..Len(conns) :
          PeerClose(c) =>
             /\ conns[c].key \notin DOMAIN peers'
             /\ \A i \in 1..Len(channels') : conns[c].key \notin channels'[i].peers]_vars

\* A connection is closed and its identity gone while a join is suspended and
\* another peer is still matched.
C13_Witness ==
  \E c \in 1..Len(conns) :
    /\ conns[c].st = "closed"
    /\ conns[c].key \notin DOMAIN peers
    /\ joins # {}
    /\ \E i \in 1..Len(channels) : channels[i].peers # {}

\* C17: every connection that is still open has a Peer entry in the registry.
C17_OpenConnHasPeer ==
  \A c \in 1..Len(conns) : conns[c].st = "open" => conns[c].key \in DOMAIN peers

\* C18: every connected peer whose last hello lists the topic of a joined channel
\* is in the matched-peer set of that channel.
C18_KnownTopicsMatched ==
  \A i \in 1..Len(channels), k \in DOMAIN peers :
    Knows(peers[k], channels[i].topicHex) => k \in channels[i].peers

\* A join has just completed, writing its hello, and the channel it created holds
\* a peer whose hello came earlier.
C18_Witness ==
  \E i \in 1..Len(channels), k \in DOMAIN peers :
    /\ out.replies = <<Reply(0, [ok |-> TRUE, channel |-> channels[i].name])>>
    /\ out.writes # NoWrites
    /\ Knows(peers[k], channels[i].topicHex)
    /\ k \in channels[i].peers

\* C19: a name that stays in the registry keeps its Channel entry, that of the
\* discovery session it was created with.
C19_EntryNeverReplaced ==
  [][\A name \in Names :
       (Has(name) /\ Has(name)') => Get(name)'.discovery = Get(name).discovery]_vars

\* C20: every peer in a matched-peer set is registered and its last hello lists
\* the topic of the channel.
C20_MatchedReflectsHello ==
  \A i \in 1..Len(channels) :
    \A k \in channels[i].peers :
      k \in DOMAIN peers /\ Knows(peers[k], channels[i].topicHex)

\* The entry of a msg record of len bytes of connection c, routed as the tag-th.
C14_Entry(c, tag, len) ==
  [from |-> IF RemoteId(conns[c].key) # NoId THEN RemoteId(conns[c].key)
            ELSE Slice8(conns[c].key),
   data |-> [tag |-> tag, len |-> len], ts |-> tag]

\* C14: a malformed record and an oversized msg record change nothing and write
\* nothing; a msg record within the size limit, of a registered peer, on the topic
\* of a joined channel goes to the oldest waiter of the channel, else to its buffer.
C14_DropKeepsConnection ==
  [][\A c \in 1..Len(conns) :
       /\ (PeerMalformed(c)
            \/ \E topic \in AllTopics, len \in Lens :
                 len > MAX_MESSAGE_SIZE /\ PeerMsg(c, topic, len)) =>
               /\ UNCHANGED <<channels, peers, conns, timers, reads, handed>>
               /\ out' = Out(<<>>, NoWrites)
       /\ \A topic \in AllTopics, len \in Lens :
            (/\ PeerMsg(c, topic, len)
             /\ len <= MAX_MESSAGE_SIZE
             /\ conns[c].key \in DOMAIN peers
             /\ TopicHits(topic) # {}) =>
               LET i == Min(TopicHits(topic))
                   e == C14_Entry(c, nmsg + 1, len)
               IN IF channels[i].waiters # <<>>
                  THEN /\ out'.replies = <<Reply(Head(channels[i].waiters),
                                                 [ok |-> TRUE, messages |-> <<e>>])>>
                       /\ channels'[i].waiters = Tail(channels[i].waiters)
                       /\ channels'[i].messages = channels[i].messages
                  ELSE /\ channels'[i].messages = Append(channels[i].messages, e)
                       /\ out'.replies = <<>>]_vars

\* After a record of a connection was dropped, the connection is open and
\* registered, and later records of it went to a waiter and to a buffer.
C14_Witness ==
  \E d \in dropped :
    /\ conns[d.conn].st = "open"
    /\ conns[d.conn].key \in DOMAIN peers
    /\ \E h \in 1..Len(handed) : handed[h].tag > d.at /\ handed[h].read > 0
    /\ \E i \in 1..Len(channels) : \E m \in 1..Len(channels[i].messages) :
         channels[i].messages[m].data.tag > d.at

\* C15: a data event that takes peer.buf over the limit destroys the connection
\* and parses nothing; the close event that follows removes the identity from the
\* registry and the matched-peer sets, and leaves the buffers, the waiters and every
\* other open connection, its Peer entry and its matches as they were.
C15_OverflowTerminates ==
  [][\A c \in 1..Len(conns) :
       /\ \A n \in ChunkLens, rec \in Records :
            (Data(c, n, rec) /\ pbuf[c] + n > MAX_PEER_BUFFER) =>
               /\ conns'[c].st = "destroyed"
               /\ UNCHANGED <<channels, peers, timers, reads, handed, nmsg>>
       /\ (PeerClose(c) /\ pbuf[c] > MAX_PEER_BUFFER) =>
            /\ conns[c].key \notin DOMAIN peers'
            /\ \A i \in 1..Len(channels) :
                 /\ conns[c].key \notin channels'[i].peers
                 /\ channels'[i].messages = channels[i].messages
                 /\ channels'[i].waiters = channels[i].waiters
            /\ \A d \in 1..Len(conns) \ {c} :
                 /\ conns'[d] = conns[d]
                 /\ (conns[d].st = "open" /\ conns[d].key \in DOMAIN peers) =>
                      /\ conns[d].key \in DOMAIN peers'
                      /\ peers'[conns[d].key] = peers[conns[d].key]
                      /\ \A i \in 1..Len(channels) :
                           conns[d].key \in channels[i].peers =>
                              conns[d].key \in channels'[i].peers]_vars

\* C16: at most one process started in the working directory has a listening
\* server.
C16_SingleInstance ==
  Cardinality({p \in Procs : Listening(p)}) <= 1

\* The near daemon, and the far one, has joined or is joining name under secret.
C12_NearHolds(name, secret) ==
  \/ Has(name) /\ Get(name).topicHex = TopicHex(name, secret)
  \/ \E j \in joins : j.name = name /\ j.topicHex = TopicHex(name, secret)
C12_FarHolds(name, secret) ==
  \/ FarHas(name) /\ FarGet(name).topicHex = TopicHex(name, secret)
  \/ \E j \in far.joins : j.name = name /\ j.topicHex = TopicHex(name, secret)

\* Both ends have registered the connection.
C12_Connected == FarKey \in DOMAIN peers /\ NearKey \in DOMAIN far.peers

\* Each daemon is in the other's matched-peer set of name.
C12_Matched(name) ==
  /\ Has(name) /\ FarKey \in Get(name).peers
  /\ FarHas(name) /\ NearKey \in FarGet(name).peers

\* The entry e is that of a record the far daemon sent, with its payload.
C12_FromFar(e) ==
  /\ e.from = FarId
  /\ e.data.tag <= Len(far.sent)
  /\ e.data.len = far.sent[e.data.tag].len

\* C12: two connected daemons that have joined, or are joining, the same name under
\* the same secret are eventually in each other's matched-peer set, whichever joined
\* or connected first; every record the far one then sends on a name reaches, with
\* its payload, the buffer of the near one's channel of that name, if the near one
\* has joined it under the same secret, and the near one's read returns the buffer.
C12_EventuallyMatched ==
  /\ \A name \in Names, secret \in Secrets :
       (C12_NearHolds(name, secret) /\ C12_FarHolds(name, secret) /\ C12_Connected)
          ~> C12_Matched(name)
  /\ \A k \in 1..MaxMsgs : (Len(far.sent) >= k) ~> (Places(k) # {})
  /\ [](\A i \in 1..Len(channels) : \A m \in 1..Len(channels[i].messages) :
          LET e == channels[i].messages[m] IN
          /\ C12_FromFar(e)
          /\ LET name == far.sent[e.data.tag].name IN
             (Has(name) /\ Get(name).topicHex = FarGet(name).topicHex)
                => channels[i].name = name)
  /\ [][\A name \in Names :
          (PairRead(name) /\ Has(name)) =>
             /\ out'.replies = <<Reply(0, [ok |-> TRUE, messages |-> Get(name).messages])>>
             /\ Get(name)'.messages = <<>>]_vars

\* C21: a msg record of a connection is buffered in a channel, or handed to a
\* waiter of it, only if the sending peer is in the matched-peer set of that
\* channel when the record arrives.
C21_MsgOnlyFromMatched ==
  [][\A c \in 1..Len(conns), topic \in AllTopics, len \in Lens :
       PeerMsg(c, topic, len) =>
         \A i \in 1..Len(channels) :
           (\/ Len(channels'[i].messages) > Len(channels[i].messages)
            \/ Len(channels'[i].waiters) < Len(channels[i].waiters))
             => conns[c].key \in channels[i].peers]_vars

====
